---- MODULE Spec2Model ----
(***************************************************************************)
(* Model of actix-embed: the Embed builder (src/src/service.rs), the       *)
(* EmbedService request handler and the fallback handlers                  *)
(* (src/src/fallback_handler.rs).                                          *)
(*                                                                         *)
(* Strings are sequences of one-character strings, so that the trimming    *)
(* and the comparisons of the code are computed character by character.    *)
(* Option<T> is a sequence of length 0 (None) or 1 (Some).                 *)
(***************************************************************************)
EXTENDS Integers, Sequences, FiniteSets, TLC

VARIABLES
    pc,        \* "start" | "building" | "registered" | "serving"
    embed,     \* Option<Embed>: the builder value
    resource,  \* Option<ResourceDef>: the prefix the service is registered under
    service,   \* Option<EmbedServiceInner>: the service made by new_service
    req,       \* Option<request>: the request handled last, not yet consumed
    resp,      \* Option<response>: its response
    looked,    \* Option<path>: the argument of E::get in that call, if it was called
    executed   \* whether that call ran the fallback handler

vars == <<pc, embed, resource, service, req, resp, looked, executed>>

\* Longest request path (in characters) the client sends.
MaxPathLen == 5

None == <<>>
Some(x) == <<x>>
IsSome(o) == o # <<>>
Unwrap(o) == o[1]

------------------------------------------------------------------------------
(* Strings *)

Alphabet == {"/", "a", "d", "s"}

RECURSIVE Strings(_)
Strings(n) ==
    IF n = 0 THEN {<<>>}
    ELSE LET S == Strings(n - 1)
         IN  S \cup {Append(s, c) : s \in {t \in S : Len(t) = n - 1}, c \in Alphabet}

\* Removal of one leading c only, as str::strip_prefix would do
TrimStartOnce(s, c) ==
    IF s # <<>> /\ Head(s) = c THEN Tail(s) ELSE s

\* str::trim_start_matches(c): every leading c is removed
RECURSIVE TrimStartMatches(_, _)
TrimStartMatches(s, c) ==
    IF s # <<>> /\ Head(s) = c THEN TrimStartMatches(Tail(s), c) ELSE s

\* No removal of a trailing c at all
TrimEndNever(s, c) == s

\* str::trim_end_matches(c): every trailing c is removed
RECURSIVE TrimEndMatches(_, _)
TrimEndMatches(s, c) ==
    IF s # <<>> /\ s[Len(s)] = c
    THEN TrimEndMatches(SubSeq(s, 1, Len(s) - 1), c)
    ELSE s

------------------------------------------------------------------------------
(* The asset source: #[derive(RustEmbed)] #[folder = "testdata/"] struct    *)
(* Assets. "a" stands for index.html, "d/a" for assets/index.css; the      *)
(* sha256 digest is shortened to two bytes. "s" is the segment of the      *)
(* mount path "/s"; no asset lies under it.                                *)

EmbeddedFiles ==
    { [path |-> <<"a">>,           data |-> <<"B1">>, hash |-> <<161, 43>>],
      [path |-> <<"d", "/", "a">>, data |-> <<"B2">>, hash |-> <<7, 206>>] }

AssetKeys == {f.path : f \in EmbeddedFiles}

\* E::get(path): exact match on the key
Get(path) ==
    LET m == {f \in EmbeddedFiles : f.path = path}
    IN  IF m = {} THEN None ELSE Some(CHOOSE f \in m : TRUE)

HexDigits == <<"0", "1", "2", "3", "4", "5", "6", "7",
               "8", "9", "a", "b", "c", "d", "e", "f">>

\* An encoding that writes the low nibble of each byte first
RECURSIVE HexEncodeLowFirst(_)
HexEncodeLowFirst(bytes) ==
    IF bytes = <<>> THEN <<>>
    ELSE <<HexDigits[(Head(bytes) % 16) + 1], HexDigits[(Head(bytes) \div 16) + 1]>>
         \o HexEncodeLowFirst(Tail(bytes))

\* hex::encode: two lowercase digits per byte, high nibble first
RECURSIVE HexEncode(_)
HexEncode(bytes) ==
    IF bytes = <<>> THEN <<>>
    ELSE <<HexDigits[(Head(bytes) \div 16) + 1], HexDigits[(Head(bytes) % 16) + 1]>>
         \o HexEncode(Tail(bytes))

------------------------------------------------------------------------------
(* Requests and responses *)

Methods == {"GET", "HEAD", "POST", "PUT", "DELETE"}

\* The request paths of the client: "/" followed by at most MaxPathLen - 1
\* characters.
UriPaths == {<<"/">> \o s : s \in Strings(MaxPathLen - 1)}

HashOf(key) == HexEncode(Unwrap(Get(key)).hash)

\* "0xFF" stands for a byte that is no visible ASCII character.
VisibleAscii ==
    {HexDigits[i] : i \in 1..16} \cup {"W", "/", "\"", ",", " ", "A", "B"}

\* The If-None-Match values of the client: the two digests, the default of
\* unwrap_or, a weak validator, a quoted one, a list, an upper-case digest and
\* values that are not text.
IfNoneMatchValues ==
    { HashOf(<<"a">>),
      HashOf(<<"d", "/", "a">>),
      <<"0">>,
      <<"W", "/", "\"">> \o HashOf(<<"a">>) \o <<"\"">>,
      <<"\"">> \o HashOf(<<"a">>) \o <<"\"">>,
      HashOf(<<"d", "/", "a">>) \o <<",", " ">> \o HashOf(<<"a">>),
      <<"A", "1", "2", "B">>,
      <<"0xFF">>,
      HashOf(<<"a">>) \o <<"0xFF">> }

Requests ==
    [method : Methods, path : UriPaths,
     if_none_match : {None} \cup {Some(v) : v \in IfNoneMatchValues}]

Response(status, content_type, etag, body) ==
    [status |-> status, content_type |-> content_type, etag |-> etag, body |-> body]

\* HttpResponse::MethodNotAllowed(), HttpResponse::NotModified(): a builder
\* turned into a response has the status, no header and an empty body.
MethodNotAllowed == Response(405, None, None, <<>>)
NotModified == Response(304, None, None, <<>>)

------------------------------------------------------------------------------
(* Fallback handlers *)

\* DefaultFallbackHandler and two closures: the one of test_fallback and one
\* that reads the request it is given.
FallbackHandlers == {"DefaultFallbackHandler", "OkNotFound", "EchoPath"}

ExecuteDefaultOnly(handler, r) == Response(404, None, None, <<"404 Not Found">>)

\* FallbackHandler::execute
Execute(handler, r) ==
    CASE handler = "DefaultFallbackHandler" ->
            Response(404, None, None, <<"404 Not Found">>)
      [] handler = "OkNotFound" ->
            Response(200, None, None, <<"not found">>)
      [] handler = "EchoPath" ->
            Response(400, None, None, <<"no such file: ">> \o r.path)

------------------------------------------------------------------------------
(* Embed: the builder *)

\* The arguments the application gives to Embed::new and to index_file.
MountArgs == { <<"/">>, <<"/", "s">>, <<"/", "s", "/">> }
IndexArgs == { <<"a">>, <<"/", "a">>, <<"/", "d", "/", "a", "/">>, <<"/">> }

\* Embed::new
EmbedNew(mount_path) ==
    [mount_path       |-> TrimEndMatches(mount_path, "/"),
     index_file_path  |-> None,
     strict_slash     |-> FALSE,
     fallback_handler |-> "DefaultFallbackHandler"]

\* Embed::strict_slash
EmbedStrictSlash(self, strict_slash) ==
    [self EXCEPT !.strict_slash = strict_slash]

\* Embed::index_file
EmbedIndexFile(self, path) ==
    [self EXCEPT !.index_file_path =
        Some(TrimStartMatches(TrimEndMatches(path, "/"), "/"))]

EmbedFallbackHandlerFresh(self, handler) ==
    [mount_path       |-> self.mount_path,
     index_file_path  |-> None,
     strict_slash     |-> self.strict_slash,
     fallback_handler |-> handler]

\* Embed::fallback_handler
EmbedFallbackHandler(self, handler) ==
    [mount_path       |-> self.mount_path,
     index_file_path  |-> self.index_file_path,
     strict_slash     |-> self.strict_slash,
     fallback_handler |-> handler]

\* ResourceDef::root_prefix and ResourceDef::prefix as register uses them
RootPrefix(pattern) ==
    IF pattern # <<>> /\ Head(pattern) # "/" THEN <<"/">> \o pattern ELSE pattern

ResourceDef(is_root, mount_path) ==
    IF is_root THEN RootPrefix(mount_path) ELSE mount_path

\* The router delegates a request to the service when its path starts with the
\* prefix at a segment boundary.
IsPrefixMatch(prefix, path) ==
    /\ Len(path) >= Len(prefix)
    /\ SubSeq(path, 1, Len(prefix)) = prefix
    /\ IF Len(path) = Len(prefix) THEN TRUE
       ELSE IF path[Len(prefix) + 1] = "/" THEN TRUE
       ELSE prefix # <<>> /\ prefix[Len(prefix)] = "/"

\* ServiceFactory::new_service
EmbedServiceInner(self) ==
    [strict_slash     |-> self.strict_slash,
     index_file_path  |-> self.index_file_path,
     fallback_handler |-> self.fallback_handler]

------------------------------------------------------------------------------
(* EmbedService::call *)

MethodIsGetOrHead(method) == method \in {"GET", "HEAD"}

\* Method::GET.ne(req.method()) is false
MethodIsGet(method) == method = "GET"

\* path.trim_start_matches('/'), then trim_end_matches('/') unless strict_slash
TrimmedPath(this, path) ==
    LET p == TrimStartMatches(path, "/")
    IN  IF ~this.strict_slash THEN TrimEndMatches(p, "/") ELSE p

IndexSubstituteNever(this, path) == path

\* if path.is_empty() { path = index_file_path.as_deref().unwrap_or("") }
IndexSubstitute(this, path) ==
    IF path = <<>>
    THEN IF IsSome(this.index_file_path) THEN Unwrap(this.index_file_path) ELSE <<>>
    ELSE path

\* HeaderValue::to_str: Some when every byte is a visible ASCII character
ToStr(v) ==
    IF \A i \in 1..Len(v) : v[i] \in VisibleAscii THEN Some(v) ELSE None

\* A comparison that unwraps a weak or quoted validator first
UnquoteEntityTag(s) ==
    LET t == IF Len(s) >= 2 /\ SubSeq(s, 1, 2) = <<"W", "/">>
             THEN SubSeq(s, 3, Len(s)) ELSE s
    IN  IF Len(t) >= 2 /\ t[1] = "\"" /\ t[Len(t)] = "\""
        THEN SubSeq(t, 2, Len(t) - 1) ELSE t

IfNoneMatchWeak(if_none_match, hash) ==
    IF if_none_match = None THEN FALSE
    ELSE LET s == ToStr(Unwrap(if_none_match))
         IN  UnquoteEntityTag(IF IsSome(s) THEN Unwrap(s) ELSE <<"0">>) = hash

IfNoneMatchNever(if_none_match, hash) == FALSE

\* headers().get(IF_NONE_MATCH).map(|v| v.to_str().unwrap_or("0").eq(&hash))
\*     .unwrap_or(false)
IfNoneMatch(if_none_match, hash) ==
    IF if_none_match = None THEN FALSE
    ELSE LET s == ToStr(Unwrap(if_none_match))
         IN  (IF IsSome(s) THEN Unwrap(s) ELSE <<"0">>) = hash

\* The extension of the last component of the path, as Path::extension
RECURSIVE FileName(_)
FileName(path) ==
    IF path = <<>> \/ path[Len(path)] = "/" THEN <<>>
    ELSE Append(FileName(SubSeq(path, 1, Len(path) - 1)), path[Len(path)])

RECURSIVE AfterLastDot(_)
AfterLastDot(name) ==
    IF name = <<>> \/ name[Len(name)] = "." THEN <<>>
    ELSE Append(AfterLastDot(SubSeq(name, 1, Len(name) - 1)), name[Len(name)])

Extension(path) ==
    LET name == FileName(path)
    IN  IF \E i \in 2..Len(name) : name[i] = "." THEN Some(AfterLastDot(name)) ELSE None

\* MimeGuess::from_path(path).first_or_octet_stream()
MimeGuess(path) ==
    LET ext == Extension(path)
    IN  CASE ext = Some(<<"h", "t", "m", "l">>) -> "text/html"
          [] ext = Some(<<"c", "s", "s">>)      -> "text/css"
          [] OTHER                              -> "application/octet-stream"

\* HttpResponse::Ok().content_type(mime).insert_header((ETAG, hash)).body(data)
OkResponse(path, f) ==
    Response(200, Some(MimeGuess(path)), Some(HexEncode(f.hash)), f.data)

\* The whole of call: the response, the key given to E::get (if it was
\* called) and whether the fallback handler was executed.
ServiceCall(this, r) ==
    IF ~MethodIsGet(r.method)
    THEN [resp |-> MethodNotAllowed, looked |-> None, executed |-> FALSE]
    ELSE LET path == IndexSubstitute(this, TrimmedPath(this, r.path))
             found == Get(path)
         IN  IF IsSome(found)
             THEN LET f == Unwrap(found)
                      hash == HexEncode(f.hash)
                  IN  IF IfNoneMatch(r.if_none_match, hash)
                      THEN [resp |-> NotModified, looked |-> Some(path),
                            executed |-> FALSE]
                      ELSE [resp |-> OkResponse(path, f), looked |-> Some(path),
                            executed |-> FALSE]
             ELSE [resp |-> Execute(this.fallback_handler, r),
                   looked |-> Some(path), executed |-> TRUE]

------------------------------------------------------------------------------
(* The state machine *)

Init ==
    /\ pc = "start"
    /\ embed = None
    /\ resource = None
    /\ service = None
    /\ req = None
    /\ resp = None
    /\ looked = None
    /\ executed = FALSE

\* Embed::new(mount_path, &Assets)
New(mount_path) ==
    /\ pc = "start"
    /\ pc' = "building"
    /\ embed' = Some(EmbedNew(mount_path))
    /\ UNCHANGED <<resource, service, req, resp, looked, executed>>

\* .strict_slash(b)
StrictSlash(b) ==
    /\ pc = "building"
    /\ embed' = Some(EmbedStrictSlash(Unwrap(embed), b))
    /\ UNCHANGED <<pc, resource, service, req, resp, looked, executed>>

\* .index_file(path)
IndexFile(path) ==
    /\ pc = "building"
    /\ embed' = Some(EmbedIndexFile(Unwrap(embed), path))
    /\ UNCHANGED <<pc, resource, service, req, resp, looked, executed>>

\* .fallback_handler(handler)
FallbackHandler(handler) ==
    /\ pc = "building"
    /\ embed' = Some(EmbedFallbackHandler(Unwrap(embed), handler))
    /\ UNCHANGED <<pc, resource, service, req, resp, looked, executed>>

\* App::service(embed): HttpServiceFactory::register
Register(is_root) ==
    /\ pc = "building"
    /\ pc' = "registered"
    /\ resource' = Some(ResourceDef(is_root, Unwrap(embed).mount_path))
    /\ UNCHANGED <<embed, service, req, resp, looked, executed>>

\* test::init_service: ServiceFactory::new_service
NewService ==
    /\ pc = "registered"
    /\ pc' = "serving"
    /\ service' = Some(EmbedServiceInner(Unwrap(embed)))
    /\ UNCHANGED <<embed, resource, req, resp, looked, executed>>

\* EmbedService::call on a request the router delegates to the service
Call(r) ==
    /\ pc = "serving"
    /\ IsPrefixMatch(Unwrap(resource), r.path)
    /\ LET out == ServiceCall(Unwrap(service), r)
       IN  /\ req' = Some(r)
           /\ resp' = Some(out.resp)
           /\ looked' = out.looked
           /\ executed' = out.executed
    /\ UNCHANGED <<pc, embed, resource, service>>

\* test::call_service(&srv, req): the client sends one request at a time
Send ==
    /\ req = None
    /\ \E r \in Requests : Call(r)

\* After a 200 response the client may repeat the request with If-None-Match
\* set to the ETag it has just received.
Revalidate ==
    /\ IsSome(req) /\ IsSome(resp)
    /\ Unwrap(resp).status = 200
    /\ IsSome(Unwrap(resp).etag)
    /\ Call([Unwrap(req) EXCEPT !.if_none_match = Some(Unwrap(Unwrap(resp).etag))])

\* test::read_body(resp): the client consumes the response
ReadBody ==
    /\ pc = "serving"
    /\ IsSome(resp)
    /\ req' = None
    /\ resp' = None
    /\ looked' = None
    /\ executed' = FALSE
    /\ UNCHANGED <<pc, embed, resource, service>>

Next ==
    \/ \E m \in MountArgs : New(m)
    \/ \E b \in BOOLEAN : StrictSlash(b)
    \/ \E p \in IndexArgs : IndexFile(p)
    \/ \E h \in FallbackHandlers : FallbackHandler(h)
    \/ \E is_root \in BOOLEAN : Register(is_root)
    \/ NewService
    \/ Send
    \/ Revalidate
    \/ ReadBody

Spec == Init /\ [][Next]_vars

------------------------------------------------------------------------------
(* Properties *)

Handled == IsSome(req) /\ IsSome(resp)

FileOf(key) == Unwrap(Get(key))

RECURSIVE Slashes(_)
Slashes(n) == IF n = 0 THEN <<>> ELSE <<"/">> \o Slashes(n - 1)

HexValue(c) == CHOOSE v \in 0..15 : HexDigits[v + 1] = c

LowerHex == {"0", "1", "2", "3", "4", "5", "6", "7",
             "8", "9", "a", "b", "c", "d", "e", "f"}

\* s is the lowercase hexadecimal writing of bytes
IsHexOf(s, bytes) ==
    /\ Len(s) = 2 * Len(bytes)
    /\ \A i \in 1..Len(bytes) :
          /\ s[2 * i - 1] \in LowerHex
          /\ s[2 * i] \in LowerHex
          /\ bytes[i] = 16 * HexValue(s[2 * i - 1]) + HexValue(s[2 * i])

\* C1: a GET request for "/" + p, p a key of the asset source, without
\* If-None-Match is answered 200 with ETag the hex digest of the asset and
\* body the bytes of the asset.
C1_GetAssetOk ==
    Handled =>
        \A f \in EmbeddedFiles :
            ( /\ Unwrap(req).method = "GET"
              /\ Unwrap(req).path = <<"/">> \o f.path
              /\ Unwrap(req).if_none_match = None )
            => /\ Unwrap(resp).status = 200
               /\ IsSome(Unwrap(resp).etag)
               /\ IsHexOf(Unwrap(Unwrap(resp).etag), f.hash)
               /\ Unwrap(resp).body = f.data

C1_Witness ==
    /\ Handled
    /\ Unwrap(req).method = "GET"
    /\ Unwrap(req).path = <<"/", "d", "/", "a">>
    /\ Unwrap(req).if_none_match = None
    /\ Unwrap(resp).status = 200
    /\ Unwrap(resp).body = <<"B2">>

\* C2: when a GET request for "/" + p, p a key, has been answered 200 with an
\* ETag, the next GET request for the same path with If-None-Match equal to
\* that ETag is answered 304 with an empty body and neither ETag nor
\* Content-Type.
C2_RevalidationNotModified ==
    [][ ( /\ Handled
          /\ IsSome(req') /\ IsSome(resp')
          /\ Unwrap(req).method = "GET"
          /\ \E p \in AssetKeys : Unwrap(req).path = <<"/">> \o p
          /\ Unwrap(resp).status = 200
          /\ IsSome(Unwrap(resp).etag)
          /\ Unwrap(req').method = "GET"
          /\ Unwrap(req').path = Unwrap(req).path
          /\ Unwrap(req').if_none_match = Some(Unwrap(Unwrap(resp).etag)) )
        => /\ Unwrap(resp').status = 304
           /\ Unwrap(resp').body = <<>>
           /\ Unwrap(resp').etag = None
           /\ Unwrap(resp').content_type = None ]_vars

C2_Witness ==
    /\ Handled
    /\ Unwrap(req).method = "GET"
    /\ Unwrap(req).path = <<"/", "a">>
    /\ Unwrap(req).if_none_match = Some(<<"a", "1", "2", "b">>)
    /\ Unwrap(resp).status = 304

\* C3: a request whose method is not GET is answered 405 with an empty body,
\* whatever its path and its If-None-Match; E::get is not called and the
\* fallback handler is not executed.
C3_NotGetIs405 ==
    (Handled /\ Unwrap(req).method # "GET")
    => /\ Unwrap(resp).status = 405
       /\ Unwrap(resp).body = <<>>
       /\ looked = None
       /\ ~executed

C3_Witness ==
    /\ Handled
    /\ Unwrap(req).method = "HEAD"
    /\ Unwrap(req).path = <<"/", "a">>
    /\ Unwrap(req).if_none_match = Some(<<"a", "1", "2", "b">>)
    /\ Unwrap(resp).status = 405

\* C4: under a mount path m other than the root, a GET request for
\* m + "/" + p, p a key, is answered 200 from asset p: the key given to
\* E::get is p.
C4_MountPrefixStripped ==
    (Handled /\ Unwrap(embed).mount_path # <<>>)
    => \A f \in EmbeddedFiles :
          ( /\ Unwrap(req).method = "GET"
            /\ Unwrap(req).path = Unwrap(embed).mount_path \o <<"/">> \o f.path
            /\ Unwrap(req).if_none_match = None )
          => /\ Unwrap(resp).status = 200
             /\ Unwrap(resp).body = f.data
             /\ looked = Some(f.path)

\* The response is that of a hit on asset key: 200 with the bytes, or 304.
IsHitOn(key) ==
    /\ ~executed
    /\ Unwrap(resp).status \in {200, 304}
    /\ Unwrap(resp).status = 200 => Unwrap(resp).body = FileOf(key).data
    /\ Unwrap(resp).status = 304 => Unwrap(resp).body = <<>>

\* The response call gives to the handled request with its path replaced
SiblingResponse(path) ==
    ServiceCall(Unwrap(service), [Unwrap(req) EXCEPT !.path = path]).resp

\* C5: for an asset key p, without strict_slash the GET request for
\* "/" + p + "/" is a hit with the status and body of the request for "/" + p;
\* with strict_slash the request for "/" + p + "/" is answered by the fallback
\* (404 by default) and the request for "/" + p is a hit.
C5_StrictSlash ==
    (Handled /\ Unwrap(req).method = "GET")
    => \A p \in AssetKeys :
          /\ ( /\ ~Unwrap(service).strict_slash
               /\ Unwrap(req).path = <<"/">> \o p \o <<"/">> )
             => /\ IsHitOn(p)
                /\ Unwrap(resp).status = SiblingResponse(<<"/">> \o p).status
                /\ Unwrap(resp).body = SiblingResponse(<<"/">> \o p).body
          /\ ( /\ Unwrap(service).strict_slash
               /\ Unwrap(req).path = <<"/">> \o p \o <<"/">> )
             => /\ executed
                /\ Unwrap(service).fallback_handler = "DefaultFallbackHandler"
                      => Unwrap(resp).status = 404
                /\ SiblingResponse(<<"/">> \o p).status \in {200, 304}
          /\ ( /\ Unwrap(service).strict_slash
               /\ Unwrap(req).path = <<"/">> \o p )
             => IsHitOn(p)

C5_Witness ==
    /\ Handled
    /\ Unwrap(service).strict_slash
    /\ Unwrap(req).method = "GET"
    /\ Unwrap(req).path = <<"/", "d", "/", "a", "/">>
    /\ Unwrap(resp).status = 404
    /\ executed

\* The response is the one the fallback handler of the service gives: the
\* fixed 404 of DefaultFallbackHandler, or what the closure returns for the
\* request as it was received.
IsFallbackResponse ==
    /\ executed
    /\ Unwrap(service).fallback_handler = "DefaultFallbackHandler"
          => Unwrap(resp) = Response(404, None, None, <<"404 Not Found">>)
    /\ Unwrap(service).fallback_handler = "OkNotFound"
          => Unwrap(resp) = Response(200, None, None, <<"not found">>)
    /\ Unwrap(service).fallback_handler = "EchoPath"
          => Unwrap(resp) =
                Response(400, None, None, <<"no such file: ">> \o Unwrap(req).path)

IsRootPath(path) == \A i \in 1..Len(path) : path[i] = "/"

\* C6: a GET request whose normalized path is empty is answered by the
\* fallback when no index file is set; when the index file is set to an
\* existing asset it has the status and the body of the request for the index
\* file's own path (200 and the asset's bytes without If-None-Match), with and
\* without strict_slash.
C6_IndexFile ==
    (Handled /\ Unwrap(req).method = "GET" /\ IsRootPath(Unwrap(req).path))
    => /\ Unwrap(service).index_file_path = None => IsFallbackResponse
       /\ \A p \in AssetKeys :
             Unwrap(service).index_file_path = Some(p)
             => /\ Unwrap(resp).status = SiblingResponse(<<"/">> \o p).status
                /\ Unwrap(resp).body = SiblingResponse(<<"/">> \o p).body
                /\ Unwrap(req).if_none_match = None
                      => /\ Unwrap(resp).status = 200
                         /\ Unwrap(resp).body = FileOf(p).data

C6_Witness ==
    /\ Handled
    /\ Unwrap(service).strict_slash
    /\ Unwrap(service).index_file_path = Some(<<"d", "/", "a">>)
    /\ Unwrap(req).method = "GET"
    /\ Unwrap(req).path = <<"/">>
    /\ Unwrap(resp).status = 200
    /\ Unwrap(resp).body = <<"B2">>

\* C7: a GET request whose lookup key is not a key of the asset source is
\* answered with exactly the response of the active fallback handler.
C7_FallbackVerbatim ==
    ( /\ Handled
      /\ Unwrap(req).method = "GET"
      /\ IsSome(looked)
      /\ Unwrap(looked) \notin AssetKeys )
    => IsFallbackResponse

C7_Witness ==
    /\ Handled
    /\ Unwrap(service).fallback_handler = "OkNotFound"
    /\ Unwrap(req).method = "GET"
    /\ Unwrap(req).path = <<"/", "d", "/", "s">>
    /\ Unwrap(resp).status = 200
    /\ Unwrap(resp).body = <<"not found">>

StripOneTrailing(s) ==
    IF s # <<>> /\ s[Len(s)] = "/" THEN SubSeq(s, 1, Len(s) - 1) ELSE s

\* C8 as stated: the lookup key is the request path without exactly one
\* leading "/" and, unless strict_slash, without exactly one trailing "/"
\* (the index file when that is empty); further slashes stay in the key.
C8_ExactlyOneSlash ==
    (Handled /\ Unwrap(req).method = "GET")
    => LET p == TrimStartOnce(Unwrap(req).path, "/")
           q == IF Unwrap(service).strict_slash THEN p ELSE StripOneTrailing(p)
       IN  looked = Some(IF q = <<>> /\ IsSome(Unwrap(service).index_file_path)
                         THEN Unwrap(Unwrap(service).index_file_path)
                         ELSE q)

\* C8 as amended: the request path is i slashes, a rest n and j slashes, where
\* n does not start with "/", j = 0 under strict_slash and n does not end with
\* "/" otherwise; the lookup key is n, or the index file (if set) when n is
\* empty.
C8_AllSlashesTrimmed ==
    (Handled /\ Unwrap(req).method = "GET")
    => LET path == Unwrap(req).path
           this == Unwrap(service)
       IN  \E i \in 0..Len(path) : \E j \in 0..(Len(path) - i) :
              LET n == SubSeq(path, i + 1, Len(path) - j)
              IN  /\ path = Slashes(i) \o n \o Slashes(j)
                  /\ n = <<>> \/ n[1] # "/"
                  /\ this.strict_slash => j = 0
                  /\ ~this.strict_slash => (n = <<>> \/ n[Len(n)] # "/")
                  /\ looked = Some(IF n = <<>> /\ IsSome(this.index_file_path)
                                   THEN Unwrap(this.index_file_path)
                                   ELSE n)

C8_Witness ==
    /\ Handled
    /\ ~Unwrap(service).strict_slash
    /\ Unwrap(req).method = "GET"
    /\ Unwrap(req).path = <<"/", "/", "a", "/", "/">>
    /\ looked = Some(<<"a">>)
    /\ Unwrap(resp).status = 200

\* C9: a GET request that hits an asset is answered 304 exactly when it has
\* an If-None-Match value equal, character by character, to the hex digest of
\* the asset; otherwise it is answered 200 with the ETag and the bytes.
C9_ExactMatchOnly ==
    ( /\ Handled
      /\ Unwrap(req).method = "GET"
      /\ IsSome(looked)
      /\ Unwrap(looked) \in AssetKeys )
    => LET f == FileOf(Unwrap(looked))
       IN  /\ Unwrap(resp).status = 304
              <=> /\ IsSome(Unwrap(req).if_none_match)
                  /\ IsHexOf(Unwrap(Unwrap(req).if_none_match), f.hash)
           /\ Unwrap(resp).status # 304
              => /\ Unwrap(resp).status = 200
                 /\ IsSome(Unwrap(resp).etag)
                 /\ IsHexOf(Unwrap(Unwrap(resp).etag), f.hash)
                 /\ Unwrap(resp).body = f.data

C9_Witness ==
    /\ Handled
    /\ Unwrap(req).method = "GET"
    /\ Unwrap(req).path = <<"/", "a">>
    /\ Unwrap(req).if_none_match =
          Some(<<"W", "/", "\"", "a", "1", "2", "b", "\"">>)
    /\ Unwrap(resp).status = 200
    /\ Unwrap(resp).etag = Some(<<"a", "1", "2", "b">>)

\* stored is given without its leading (if lead) and trailing slashes
IsStripped(stored, given, lead) ==
    \E i \in 0..Len(given) : \E j \in 0..(Len(given) - i) :
        /\ given = Slashes(i) \o stored \o Slashes(j)
        /\ lead \/ i = 0
        /\ stored = <<>> \/ (stored[Len(stored)] # "/" /\ (lead => stored[1] # "/"))

\* C10: Embed::new gives the defaults; each builder call sets its own setting
\* to the value it is given and leaves the mount path and the other settings
\* as they were; the fallback handler is the single one given last; the
\* service holds the settings of the builder.
C10_BuilderFrame ==
    [][ /\ \A m \in MountArgs :
              New(m) => /\ IsStripped(Unwrap(embed').mount_path, m, FALSE)
                        /\ Unwrap(embed').index_file_path = None
                        /\ Unwrap(embed').strict_slash = FALSE
                        /\ Unwrap(embed').fallback_handler = "DefaultFallbackHandler"
        /\ \A b \in BOOLEAN :
              StrictSlash(b)
              => /\ Unwrap(embed').strict_slash = b
                 /\ Unwrap(embed').mount_path = Unwrap(embed).mount_path
                 /\ Unwrap(embed').index_file_path = Unwrap(embed).index_file_path
                 /\ Unwrap(embed').fallback_handler = Unwrap(embed).fallback_handler
        /\ \A p \in IndexArgs :
              IndexFile(p)
              => /\ IsSome(Unwrap(embed').index_file_path)
                 /\ IsStripped(Unwrap(Unwrap(embed').index_file_path), p, TRUE)
                 /\ Unwrap(embed').mount_path = Unwrap(embed).mount_path
                 /\ Unwrap(embed').strict_slash = Unwrap(embed).strict_slash
                 /\ Unwrap(embed').fallback_handler = Unwrap(embed).fallback_handler
        /\ \A h \in FallbackHandlers :
              FallbackHandler(h)
              => /\ Unwrap(embed').fallback_handler = h
                 /\ Unwrap(embed').mount_path = Unwrap(embed).mount_path
                 /\ Unwrap(embed').strict_slash = Unwrap(embed).strict_slash
                 /\ Unwrap(embed').index_file_path = Unwrap(embed).index_file_path
        /\ NewService
              => /\ Unwrap(service').strict_slash = Unwrap(embed).strict_slash
                 /\ Unwrap(service').index_file_path = Unwrap(embed).index_file_path
                 /\ Unwrap(service').fallback_handler = Unwrap(embed).fallback_handler
      ]_vars

C10_Witness ==
    /\ pc = "serving"
    /\ Unwrap(embed).mount_path = <<"/", "s">>
    /\ Unwrap(service).strict_slash
    /\ Unwrap(service).index_file_path = Some(<<"d", "/", "a">>)
    /\ Unwrap(service).fallback_handler = "EchoPath"

====
